---- MODULE Spec2Model ----
(***************************************************************************)
(* FreeWorkDataScraper: the crawl run of main.py.  One BrowserManager is   *)
(* started, collect_all_job_links walks the paginated search results,      *)
(* extract_all_jobs fans extract_job_detail out over a thread pool that    *)
(* shares the one browser, export_jobs receives the result and the browser *)
(* is quit in the finally clause.                                          *)
(***************************************************************************)
EXTENDS Integers, Sequences, FiniteSets, TLC

VARIABLES
    pc,           \* position of the main thread inside main()
    outcome,      \* how the run ends: running / success / fatal / no_links
    driver,       \* BrowserManager.driver: "none" or "started"
    page,         \* the page the shared browser was last navigated to
    max_pages,    \* collect_all_job_links: max_pages (--max-pages)
    soup,         \* detect_total_pages: the pagination buttons it selected
    total_pages,  \* collect_all_job_links: total_pages
    page_num,     \* collect_all_job_links: next page of the for loop
    all_links,    \* collect_all_job_links: all_links
    page_calls,   \* invocations of on_page_done by collect_all_job_links, in order
    page_log,     \* what became of each search page collect_all_job_links loaded
    job_links,    \* extract_all_jobs: job_links
    futures,      \* extract_all_jobs: state of each submitted extract_job_detail
    taken,        \* futures already yielded by as_completed
    jobs,         \* extract_all_jobs: jobs
    job_calls,    \* invocations of on_job_done, in order
    exported,     \* the argument export_jobs was called with, if it was
    fatal,        \* where the exception main() catches was raised, "" if none
    browser,      \* main: the local browser, "None" or "BrowserManager"
    quit_calls,   \* how each call of BrowserManager.quit went, in order
    fn_call       \* a function of the scraper called on its own: input and result

vars == <<pc, outcome, driver, page, max_pages, soup, total_pages, page_num, all_links,
          page_calls, page_log, job_links, futures, taken, jobs, job_calls, exported, fatal,
          browser, quit_calls, fn_call>>

(***************************************************************************)
(* Bounds of the model.                                                    *)
(***************************************************************************)
MaxLinks == 2      \* links collected in one run
MaxAnchors == 2    \* anchors inside the results container of one page
MaxBtns == 3       \* pagination buttons on the first page
MaxPagesArg == 2   \* largest --max-pages value tried
MaxBadges == 2     \* badge spans of one detail page
MaxTags == 2       \* tag links of one detail page
MaxDescLen == 3    \* characters of a path descriptor
MaxHeaderLines == 5  \* lines of text inside the header container
MaxParams == 2     \* query parameters of a search URL
MaxPageNo == 3     \* page numbers given to _build_page_url
MaxContainers == 3 \* icon-row containers of one detail page
MaxPoolLinks == 7  \* links of a batch, when only the pool is looked at

\* ThreadPoolExecutor(max_workers=5)
MaxWorkers == 5

(***************************************************************************)
(* Small helpers.                                                          *)
(***************************************************************************)
Min(a, b) == IF a <= b THEN a ELSE b

Range(s) == {s[i] : i \in 1..Len(s)}

SeqsUpTo(S, n) == UNION {[1..k -> S] : k \in 0..n}

(***************************************************************************)
(* The site.  A URL is a sequence of tokens (origin, then path segments).  *)
(***************************************************************************)
BASE_URL == "https://www.free-work.com"

JOB_LINK_PREFIX == "job-mission"

SearchUrl == <<BASE_URL, "jobs">>

\* href attributes an anchor of a search page may carry
Hrefs == { <<JOB_LINK_PREFIX, "a">>,
           <<BASE_URL, JOB_LINK_PREFIX, "a">>,
           <<JOB_LINK_PREFIX, "b">>,
           <<"about">> }

\* values a data-page attribute may have, each a string given as its sequence
\* of characters
Digits == {"0", "1", "2", "3", "4", "5", "6", "7", "8", "9"}

DataPages == { <<>>, <<"x">>, <<"0">>, <<"1">>, <<"2">>, <<"4">>,
              <<"0", "2">>, <<"2", "x">> }

\* a pagination button: btn.get("data-page") is None when has is FALSE
Buttons == {[has |-> FALSE, val |-> <<>>]} \cup {[has |-> TRUE, val |-> v] : v \in DataPages}

\* str(exc) of the exceptions driver.get raises: some carry no text
RenderMsgs == {"", "timeout"}

\* str(exc) of the exceptions page_source and the extraction sub-steps raise
ParseMsgs == {"maximum recursion depth exceeded"}

\* str(exc) of the exceptions a progress callback raises
CallbackMsgs == {"callback failed"}

\* str.isdigit()
IsDigit(s) == Len(s) > 0 /\ \A i \in 1..Len(s) : s[i] \in Digits

DigitVal(c) == CHOOSE n \in 0..9 : <<"0", "1", "2", "3", "4", "5", "6", "7", "8", "9">>[n + 1] = c

\* int(s) of a string of digits
RECURSIVE ParseInt(_)
ParseInt(s) ==
    IF Len(s) = 0 THEN 0
    ELSE 10 * ParseInt(SubSeq(s, 1, Len(s) - 1)) + DigitVal(s[Len(s)])

\* the browser after driver.get of the p-th search page
SearchPage(p) == [kind |-> "search", p |-> p, url |-> <<>>]

\* the browser after driver.get of the detail page of the job at url
DetailPage(url) == [kind |-> "detail", p |-> 0, url |-> url]

Blank == [kind |-> "blank", p |-> 0, url |-> <<>>]

(***************************************************************************)
(* search.py                                                               *)
(***************************************************************************)
\* the page_numbers list of detect_total_pages
RECURSIVE PageNumbers(_)
PageNumbers(btns) ==
    IF Len(btns) = 0 THEN <<>>
    ELSE LET data_page == btns[1]
             rest == PageNumbers(Tail(btns))
         IN IF data_page.has /\ data_page.val # <<>> /\ IsDigit(data_page.val)
            THEN <<ParseInt(data_page.val)>> \o rest
            ELSE rest

\* max() of a non-empty list
RECURSIVE MaxOf(_)
MaxOf(s) ==
    IF Len(s) = 1 THEN s[1]
    ELSE LET m == MaxOf(Tail(s)) IN IF s[1] >= m THEN s[1] ELSE m

\* detect_total_pages taking the index of the last button instead of the
\* largest one
detect_total_pages_last(btns) ==
    LET page_numbers == PageNumbers(btns)
    IN IF page_numbers = <<>> THEN 1 ELSE page_numbers[Len(page_numbers)]

detect_total_pages(btns) ==
    LET page_numbers == PageNumbers(btns)
    IN IF page_numbers = <<>> THEN 1 ELSE MaxOf(page_numbers)

\* collect_all_job_links without the cap
CapPagesIgnored(total, mp) == total

\* the cap of collect_all_job_links
CapPages(total, mp) == IF mp > 0 THEN Min(total, mp) ELSE total

\* full_url = href if href.startswith("http") else BASE_URL + href
FullUrl(href) == IF href[1] = BASE_URL THEN href ELSE <<BASE_URL>> \o href

\* the loop of extract_job_links_from_page over the anchors, with its seen set
RECURSIVE LinksOf(_, _)
LinksOf(anchors, links) ==
    IF Len(anchors) = 0 THEN links
    ELSE LET href == anchors[1]
             full_url == FullUrl(href)
         IN IF JOB_LINK_PREFIX \in Range(href) /\ full_url \notin Range(links)
            THEN LinksOf(Tail(anchors), Append(links, full_url))
            ELSE LinksOf(Tail(anchors), links)

\* extract_job_links_from_page without its seen set
extract_job_links_unseen(anchors) ==
    LET job == SelectSeq(anchors, LAMBDA href : JOB_LINK_PREFIX \in Range(href))
    IN [n \in 1..Len(job) |-> FullUrl(job[n])]

extract_job_links_from_page(anchors) == LinksOf(anchors, <<>>)

(***************************************************************************)
(* models.py and job_extractor.py                                          *)
(***************************************************************************)
\* FreeWorkJob(job_url=..., search_url=..., page_number=...): every other
\* field keeps its dataclass default
FreeWorkJob(job_url, page_number) ==
    [title |-> "", company_name |-> "", company_location |-> "", job_category |-> "",
     job_url |-> job_url, publish_date |-> "", start_date |-> "", duration |-> "",
     experience |-> "", salary |-> "", remote |-> "", location |-> "",
     description |-> "", skills |-> "", sector |-> "",
     search_url |-> SearchUrl, page_number |-> page_number,
     status |-> "ok", error_message |-> ""]

\* what the six extraction sub-steps read from the rendered detail page of url
Doc(url) ==
    LET id == url[Len(url)]
    IN [title |-> id \o ".title", company_name |-> id \o ".company",
        company_location |-> id \o ".city", job_category |-> id \o ".category",
        publish_date |-> id \o ".published", description |-> id \o ".description",
        start_date |-> id \o ".start", duration |-> id \o ".duration",
        experience |-> id \o ".experience", location |-> id \o ".location",
        salary |-> id \o ".salary", remote |-> id \o ".remote",
        skills |-> id \o ".skills", sector |-> id \o ".sector"]

\* the sub-steps of extract_job_detail, in order: header, publish date,
\* description, icon attributes, skills, sector
NSteps == 6

\* how many sub-steps have run when the try block raises: none (page_source
\* or the header raises), the header only, all but the sector
FailAfter == {0, 1, NSteps - 1}

\* job after the first k sub-steps ran on the page source src
ExtractSteps(job, src, k) ==
    LET d == Doc(src.url)
    IN [job EXCEPT
          !.title = IF k >= 1 THEN d.title ELSE @,
          !.company_name = IF k >= 1 THEN d.company_name ELSE @,
          !.company_location = IF k >= 1 THEN d.company_location ELSE @,
          !.job_category = IF k >= 1 THEN d.job_category ELSE @,
          !.publish_date = IF k >= 2 THEN d.publish_date ELSE @,
          !.description = IF k >= 3 THEN d.description ELSE @,
          !.start_date = IF k >= 4 THEN d.start_date ELSE @,
          !.duration = IF k >= 4 THEN d.duration ELSE @,
          !.experience = IF k >= 4 THEN d.experience ELSE @,
          !.location = IF k >= 4 THEN d.location ELSE @,
          !.salary = IF k >= 4 THEN d.salary ELSE @,
          !.remote = IF k >= 4 THEN d.remote ELSE @,
          !.skills = IF k >= 5 THEN d.skills ELSE @,
          !.sector = IF k >= 6 THEN d.sector ELSE @]

\* the except clause of extract_job_detail
JobFailed(job, msg) == [job EXCEPT !.status = "error", !.error_message = msg]

\* the end of the try block of extract_job_detail
JobOk(job) == [job EXCEPT !.status = "ok"]

\* the except clause of the as_completed loop of extract_all_jobs
ErrorJob(url, msg) ==
    [FreeWorkJob(url, 0) EXCEPT !.status = "error", !.error_message = msg]

\* job_links.index(url) + 1
RECURSIVE IndexOf(_, _)
IndexOf(s, x) == IF s[1] = x THEN 0 ELSE 1 + IndexOf(Tail(s), x)

CallbackIndex(links, url) == IndexOf(links, url) + 1

\* a future of the pool: queued, running (between browser.get and the read of
\* page_source) or done; how says what extract_job_detail met: "render" when
\* browser.get raised, "parse" when the rest of the try block raised, else "ok"
Future(st, how, job) == [st |-> st, how |-> how, job |-> job]

Queued(url) == Future("queued", "", FreeWorkJob(url, 0))

Running == {i \in DOMAIN futures : futures[i].st = "running"}

NotExported == [called |-> FALSE, jobs |-> <<>>]

\* no function is being called on its own
NoCall == [fn |-> "", args |-> <<>>, ret |-> <<>>, done |-> FALSE]

\* the fate of search page p: whether browser.get returned, whether the links
\* were extracted, and the links the page added to all_links
PageEntry(p, got, parsed, links) == [p |-> p, got |-> got, parsed |-> parsed, links |-> links]

(***************************************************************************)
(* main.py: the run                                                        *)
(***************************************************************************)
Init ==
    /\ pc = "start"
    /\ outcome = "running"
    /\ driver = "none"
    /\ page = Blank
    /\ max_pages \in -1..MaxPagesArg
    /\ soup = <<>>
    /\ total_pages = 0
    /\ page_num = 0
    /\ all_links = <<>>
    /\ page_calls = <<>>
    /\ page_log = <<>>
    /\ job_links = <<>>
    /\ futures = <<>>
    /\ taken = {}
    /\ jobs = <<>>
    /\ job_calls = <<>>
    /\ exported = NotExported
    /\ fatal = ""
    /\ browser = "None"
    /\ quit_calls = <<>>
    /\ fn_call = NoCall

\* an exception reaches the except clause of main: log it, sys.exit(1), and
\* on the way out the finally clause
Abort(at) ==
    /\ pc' = "finally"
    /\ outcome' = "fatal"
    /\ fatal' = at

\* KeyboardInterrupt reaches the except clause of main: log it, and on the way
\* out the finally clause
Interrupted ==
    /\ pc' = "finally"
    /\ outcome' = "interrupted"
    /\ UNCHANGED fatal

\* browser = BrowserManager(...); browser.start(): start may raise before or
\* after it has assigned self.driver
Start ==
    /\ pc = "start"
    /\ browser' = "BrowserManager"
    /\ \/ /\ driver' = "started"
          /\ pc' = "load_search"
          /\ UNCHANGED <<outcome, fatal>>
       \/ /\ driver' \in {"none", "started"}
          /\ \/ Abort("start")
             \/ Interrupted
    /\ UNCHANGED <<fn_call, quit_calls, page, max_pages, soup, total_pages, page_num, all_links,
                   page_calls, page_log, job_links, futures, taken, jobs, job_calls, exported>>

\* browser.get(search_url) wrapped in a try that logs the failure and goes on
LoadSearchSwallowed ==
    /\ pc = "load_search"
    /\ pc' = "detect"
    /\ \/ /\ page' = SearchPage(1)
          /\ page_log' = <<PageEntry(1, TRUE, FALSE, <<>>)>>
       \/ /\ page_log' = <<PageEntry(1, FALSE, FALSE, <<>>)>>
          /\ UNCHANGED page
    /\ UNCHANGED <<browser, quit_calls, fn_call, outcome, fatal, driver, max_pages, soup, total_pages, page_num,
                   all_links, page_calls, job_links, futures, taken, jobs, job_calls,
                   exported>>

\* collect_all_job_links: browser.get(search_url), outside any try
LoadSearch ==
    /\ pc = "load_search"
    /\ \/ /\ page' = SearchPage(1)
          /\ page_log' = <<PageEntry(1, TRUE, FALSE, <<>>)>>
          /\ pc' = "detect"
          /\ UNCHANGED <<outcome, fatal>>
       \/ /\ Abort("load_search")
          /\ page_log' = <<PageEntry(1, FALSE, FALSE, <<>>)>>
          /\ UNCHANGED page
    /\ UNCHANGED <<browser, quit_calls, fn_call, driver, max_pages, soup, total_pages, page_num, all_links, page_calls,
                   job_links, futures, taken, jobs, job_calls, exported>>

\* collect_all_job_links: total_pages = detect_total_pages(browser) on the
\* page source read now, then the cap
Detect ==
    /\ pc = "detect"
    /\ \/ \E btns \in SeqsUpTo(Buttons, MaxBtns) :
             /\ soup' = btns
             /\ total_pages' = CapPages(detect_total_pages(btns), max_pages)
             /\ pc' = "detected"
             /\ UNCHANGED <<outcome, fatal>>
       \/ /\ Abort("detect")
          /\ UNCHANGED <<soup, total_pages>>
    /\ UNCHANGED <<browser, quit_calls, fn_call, driver, page, max_pages, page_num, all_links, page_calls,
                   page_log, job_links, futures, taken, jobs, job_calls, exported>>

\* collect_all_job_links: all_links = []; what detect_total_pages parsed is gone
InitLinks ==
    /\ pc = "detected"
    /\ pc' = "first_page"
    /\ all_links' = <<>>
    /\ soup' = <<>>
    /\ UNCHANGED <<browser, quit_calls, fn_call, outcome, driver, page, max_pages, total_pages, page_num, page_calls,
                   page_log, job_links, futures, taken, jobs, job_calls, exported, fatal>>

\* collect_all_job_links: the links of page 1, read from the page already
\* loaded, and on_page_done(1, ...), all outside any try
FirstPage ==
    /\ pc = "first_page"
    /\ \/ \E anchors \in SeqsUpTo(Hrefs, MaxAnchors) :
             LET page_links == extract_job_links_from_page(anchors)
             IN /\ Len(page_links) <= MaxLinks
                /\ all_links' = page_links
                /\ page_log' = <<PageEntry(1, TRUE, TRUE, page_links)>>
                /\ page_calls' = Append(page_calls, <<1, total_pages, Len(page_links)>>)
                /\ \/ /\ pc' = "pages"
                      /\ page_num' = 2
                      /\ UNCHANGED <<outcome, fatal>>
                   \/ /\ Abort("on_page_done")
                      /\ UNCHANGED page_num
       \/ /\ Abort("first_page")
          /\ UNCHANGED <<all_links, page_calls, page_log, page_num>>
    /\ UNCHANGED <<browser, quit_calls, fn_call, driver, page, max_pages, soup, total_pages, job_links, futures, taken,
                   jobs, job_calls, exported>>

\* the except clause of the page loop: on_page_done(page_num, total_pages, 0),
\* which is itself unguarded
PageFailed ==
    /\ page_calls' = Append(page_calls, <<page_num, total_pages, 0>>)
    /\ \/ /\ page_num' = page_num + 1
          /\ UNCHANGED <<pc, outcome, fatal>>
       \/ /\ Abort("on_page_done")
          /\ UNCHANGED page_num

\* collect_all_job_links: one iteration of for page_num in range(2, total_pages + 1)
NextPage ==
    /\ pc = "pages"
    /\ page_num <= total_pages
    /\ \/ \* browser.get(page_url) raises
          /\ PageFailed
          /\ page_log' = Append(page_log, PageEntry(page_num, FALSE, FALSE, <<>>))
          /\ UNCHANGED <<page, all_links>>
       \/ \E anchors \in SeqsUpTo(Hrefs, MaxAnchors) :
             LET page_links == extract_job_links_from_page(anchors)
             IN /\ Len(all_links) + Len(page_links) <= MaxLinks
                /\ page' = SearchPage(page_num)
                /\ \/ \* extract_job_links_from_page raises
                      /\ PageFailed
                      /\ page_log' = Append(page_log, PageEntry(page_num, TRUE, FALSE, <<>>))
                      /\ UNCHANGED all_links
                   \/ \* the links are added and on_page_done returns
                      /\ all_links' = all_links \o page_links
                      /\ page_log' = Append(page_log, PageEntry(page_num, TRUE, TRUE, page_links))
                      /\ page_calls' = Append(page_calls, <<page_num, total_pages, Len(page_links)>>)
                      /\ page_num' = page_num + 1
                      /\ UNCHANGED <<pc, outcome, fatal>>
                   \/ \* the links are added and on_page_done raises inside the try
                      /\ all_links' = all_links \o page_links
                      /\ page_log' = Append(page_log, PageEntry(page_num, TRUE, TRUE, page_links))
                      /\ page_calls' = page_calls \o
                            << <<page_num, total_pages, Len(page_links)>>,
                               <<page_num, total_pages, 0>> >>
                      /\ \/ /\ page_num' = page_num + 1
                            /\ UNCHANGED <<pc, outcome, fatal>>
                         \/ /\ Abort("on_page_done")
                            /\ UNCHANGED page_num
    /\ UNCHANGED <<browser, quit_calls, fn_call, driver, max_pages, soup, total_pages, job_links, futures, taken, jobs,
                   job_calls, exported>>

\* collect_all_job_links returns all_links to main
CollectReturn ==
    /\ pc = "pages"
    /\ page_num > total_pages
    /\ job_links' = all_links
    /\ pc' = "collected"
    /\ UNCHANGED <<browser, quit_calls, fn_call, outcome, driver, page, max_pages, soup, total_pages, page_num,
                   all_links, page_calls, page_log, futures, taken, jobs, job_calls,
                   exported, fatal>>

\* main: sys.exit(0) when no link was collected; else extract_all_jobs starts
\* and submits one extract_job_detail per link to the pool.  The parameters
\* and locals of the collect_all_job_links call are gone by now.
Submit ==
    /\ pc = "collected"
    /\ max_pages' = 0
    /\ total_pages' = 0
    /\ page_num' = 0
    /\ all_links' = <<>>
    /\ page_calls' = <<>>
    /\ page_log' = <<>>
    /\ IF job_links = <<>>
       THEN /\ pc' = "finally"
            /\ outcome' = "no_links"
            /\ UNCHANGED futures
       ELSE /\ pc' = "extract"
            /\ futures' = [i \in 1..Len(job_links) |-> Queued(job_links[i])]
            /\ UNCHANGED outcome
    /\ UNCHANGED <<browser, quit_calls, fn_call, driver, page, soup, job_links, taken, jobs, job_calls, exported, fatal>>

(***************************************************************************)
(* job_extractor.py: the pool workers and the as_completed loop            *)
(***************************************************************************)
\* extract_job_detail, first half, run by a pool thread: the placeholder Job
\* and browser.get(job_url) on the browser every worker shares
WorkerGet(i) ==
    /\ pc = "extract"
    /\ futures[i].st = "queued"
    /\ Cardinality(Running) < MaxWorkers
    /\ LET url == job_links[i]
           job == FreeWorkJob(url, 0)
       IN IF driver = "none"
          THEN /\ futures' = [futures EXCEPT ![i] =
                     Future("done", "render", JobFailed(job, "Browser not started. Call start() first."))]
               /\ UNCHANGED page
          ELSE \/ /\ page' = DetailPage(url)
                  /\ futures' = [futures EXCEPT ![i] = Future("running", "", job)]
               \/ \E msg \in RenderMsgs :
                     /\ futures' = [futures EXCEPT ![i] = Future("done", "render", JobFailed(job, msg))]
                     /\ UNCHANGED page
    /\ UNCHANGED <<browser, quit_calls, fn_call, pc, outcome, driver, max_pages, soup, total_pages, page_num, all_links,
                   page_calls, page_log, job_links, taken, jobs, job_calls, exported, fatal>>

\* extract_job_detail, second half, after the sleep: browser.page_source is
\* whatever the shared browser shows by now; the sub-steps fill the Job in
\* place until one raises or all are done
WorkerParse(i) ==
    /\ pc = "extract"
    /\ futures[i].st = "running"
    /\ \/ futures' = [futures EXCEPT ![i] =
             Future("done", "ok", JobOk(ExtractSteps(futures[i].job, page, NSteps)))]
       \/ \E k \in FailAfter, msg \in ParseMsgs :
             futures' = [futures EXCEPT ![i] =
                Future("done", "parse", JobFailed(ExtractSteps(futures[i].job, page, k), msg))]
    /\ UNCHANGED <<browser, quit_calls, fn_call, pc, outcome, driver, page, max_pages, soup, total_pages, page_num,
                   all_links, page_calls, page_log, job_links, taken, jobs, job_calls,
                   exported, fatal>>

\* the as_completed loop taking a future whether or not it is done
CompletedEarly(i) ==
    /\ pc = "extract"
    /\ i \notin taken
    /\ taken' = taken \cup {i}
    /\ LET url == job_links[i]
           job == futures[i].job
           idx == CallbackIndex(job_links, url)
           call == [idx |-> idx, total |-> Len(job_links), job |-> job, raised |-> FALSE]
       IN /\ job_calls' = Append(job_calls, call)
          /\ jobs' = Append(jobs, job)
    /\ UNCHANGED <<browser, quit_calls, fn_call, pc, outcome, driver, page, max_pages, soup,
                   total_pages, page_num, all_links, page_calls, page_log, job_links,
                   futures, exported, fatal>>

\* one iteration of for future in as_completed(future_to_url), on the main
\* thread: append the result, call on_job_done, and in the except clause append
\* an error Job for the url
Completed(i) ==
    /\ pc = "extract"
    /\ futures[i].st = "done"
    /\ i \notin taken
    /\ taken' = taken \cup {i}
    /\ LET url == job_links[i]
           job == futures[i].job
           idx == CallbackIndex(job_links, url)
           call == [idx |-> idx, total |-> Len(job_links), job |-> job, raised |-> FALSE]
       IN \/ /\ job_calls' = Append(job_calls, call)
             /\ jobs' = Append(jobs, job)
          \/ \E msg \in CallbackMsgs :
                /\ job_calls' = Append(job_calls, [call EXCEPT !.raised = TRUE])
                /\ jobs' = Append(Append(jobs, job), ErrorJob(url, msg))
    /\ UNCHANGED <<browser, quit_calls, fn_call, pc, outcome, driver, page, max_pages, soup, total_pages, page_num,
                   all_links, page_calls, page_log, job_links, futures, exported, fatal>>

\* extract_all_jobs returning what it has without waiting for every future
ExtractReturnEarly ==
    /\ pc = "extract"
    /\ pc' = "export"
    /\ UNCHANGED <<browser, quit_calls, fn_call, outcome, driver, page, max_pages, soup,
                   total_pages, page_num, all_links, page_calls, page_log, job_links,
                   futures, taken, jobs, job_calls, exported, fatal>>

\* the with block of extract_all_jobs ends once every future was yielded
ExtractReturn ==
    /\ pc = "extract"
    /\ taken = DOMAIN futures
    /\ pc' = "export"
    /\ UNCHANGED <<browser, quit_calls, fn_call, outcome, driver, page, max_pages, soup, total_pages, page_num, all_links,
                   page_calls, page_log, job_links, futures, taken, jobs, job_calls, exported, fatal>>

\* files = export_jobs(jobs, ...), which may raise after it was called
Export ==
    /\ pc = "export"
    /\ exported' = [called |-> TRUE, jobs |-> jobs]
    /\ \/ /\ pc' = "finally"
          /\ outcome' = "success"
          /\ UNCHANGED fatal
       \/ Abort("export")
    /\ UNCHANGED <<browser, quit_calls, fn_call, driver, page, max_pages, soup, total_pages, page_num, all_links,
                   page_calls, page_log, job_links, futures, taken, jobs, job_calls>>

\* BrowserManager.quit without its finally clause: the driver is kept when
\* driver.quit() raises
quit_without_finally ==
    IF driver = "none"
    THEN /\ quit_calls' = Append(quit_calls, "no_driver")
         /\ UNCHANGED driver
    ELSE \/ /\ quit_calls' = Append(quit_calls, "closed")
            /\ driver' = "none"
         \/ /\ quit_calls' = Append(quit_calls, "raised")
            /\ UNCHANGED driver

\* BrowserManager.quit: driver.quit() returns or raises, and the finally
\* clause sets self.driver = None
quit ==
    IF driver = "none"
    THEN /\ quit_calls' = Append(quit_calls, "no_driver")
         /\ UNCHANGED driver
    ELSE /\ \E how \in {"closed", "raised"} : quit_calls' = Append(quit_calls, how)
         /\ driver' = "none"

\* the finally clause of main: if browser: browser.quit()
Quit ==
    /\ pc = "finally"
    /\ pc' = "done"
    /\ IF browser = "None" THEN UNCHANGED <<driver, quit_calls>> ELSE quit
    /\ UNCHANGED <<fn_call, browser, outcome, page, max_pages, soup, total_pages, page_num, all_links,
                   page_calls, page_log, job_links, futures, taken, jobs, job_calls, exported, fatal>>

\* KeyboardInterrupt raised on the main thread inside the try block of main,
\* outside extract_all_jobs
Interrupt ==
    /\ pc \in {"start", "load_search", "detect", "detected", "first_page", "pages",
               "collected"}
    /\ Interrupted
    /\ UNCHANGED <<fn_call, browser, quit_calls, driver, page, max_pages, soup, total_pages,
                   page_num, all_links, page_calls, page_log, job_links, futures, taken,
                   jobs, job_calls, exported>>

\* KeyboardInterrupt raised on the main thread inside the as_completed loop:
\* the with block waits for the pool (shutdown(wait=True)), so the queued
\* extractions still navigate the browser, then the exception reaches main and
\* the list of extract_all_jobs is never returned
InterruptExtract ==
    /\ pc = "extract"
    /\ Interrupted
    /\ page' \in {page} \cup {DetailPage(job_links[i]) : i \in {n \in DOMAIN futures : futures[n].st = "queued"}}
    /\ futures' = <<>>
    /\ taken' = {}
    /\ jobs' = <<>>
    /\ job_calls' = <<>>
    /\ UNCHANGED <<fn_call, browser, quit_calls, driver, max_pages, soup, total_pages,
                   page_num, all_links, page_calls, page_log, job_links, exported>>

Next ==
    \/ Start
    \/ LoadSearch
    \/ Detect
    \/ InitLinks
    \/ FirstPage
    \/ NextPage
    \/ CollectReturn
    \/ Submit
    \/ \E i \in DOMAIN futures : WorkerGet(i)
    \/ \E i \in DOMAIN futures : WorkerParse(i)
    \/ \E i \in DOMAIN futures : Completed(i)
    \/ ExtractReturn
    \/ Export
    \/ Interrupt
    \/ InterruptExtract
    \/ Quit

Spec == Init /\ [][Next]_vars

(***************************************************************************)
(* Functions called on their own.  fn_call holds the function, its input   *)
(* and, once it returned, its result; the run of main is not started.      *)
(***************************************************************************)
\* the variables of the run of main
run_vars == <<pc, outcome, driver, page, max_pages, soup, total_pages, page_num, all_links,
              page_calls, page_log, job_links, futures, taken, jobs, job_calls, exported,
              fatal, browser, quit_calls>>

\* main is not running
NoRun ==
    /\ pc = "fn"
    /\ outcome = "running"
    /\ driver = "none"
    /\ page = Blank
    /\ max_pages = 0
    /\ soup = <<>>
    /\ total_pages = 0
    /\ page_num = 0
    /\ all_links = <<>>
    /\ page_calls = <<>>
    /\ page_log = <<>>
    /\ job_links = <<>>
    /\ futures = <<>>
    /\ taken = {}
    /\ jobs = <<>>
    /\ job_calls = <<>>
    /\ exported = NotExported
    /\ fatal = ""
    /\ browser = "None"
    /\ quit_calls = <<>>

\* a call of fn on args that has not returned yet
Pending(fn, args) == [fn |-> fn, args |-> args, ret |-> <<>>, done |-> FALSE]

\* the anchors, in document order, of the results container of each of the
\* two pages of a search
Sites == SeqsUpTo(Hrefs, MaxAnchors) \X SeqsUpTo(Hrefs, MaxAnchors)

\* collect_all_job_links on a search of two pages that render and parse
InitCollect ==
    /\ NoRun
    /\ \E site \in Sites : fn_call = Pending("collect_all_job_links", site)

\* page_links = extract_job_links_from_page(browser); all_links.extend(page_links)
\* for the next page of the site; ret holds the page_links of each page so far
CollectPage ==
    /\ fn_call.fn = "collect_all_job_links"
    /\ ~fn_call.done
    /\ Len(fn_call.ret) < Len(fn_call.args)
    /\ LET page_links == extract_job_links_from_page(fn_call.args[Len(fn_call.ret) + 1])
       IN /\ all_links' = all_links \o page_links
          /\ fn_call' = [fn_call EXCEPT !.ret = Append(@, page_links)]
    /\ UNCHANGED <<pc, outcome, driver, page, max_pages, soup, total_pages, page_num,
                   page_calls, page_log, job_links, futures, taken, jobs, job_calls,
                   exported, fatal, browser, quit_calls>>

\* return all_links
CollectDone ==
    /\ fn_call.fn = "collect_all_job_links"
    /\ ~fn_call.done
    /\ Len(fn_call.ret) = Len(fn_call.args)
    /\ fn_call' = [fn_call EXCEPT !.done = TRUE]
    /\ job_links' = all_links
    /\ UNCHANGED <<pc, outcome, driver, page, max_pages, soup, total_pages, page_num,
                   all_links, page_calls, page_log, futures, taken, jobs, job_calls,
                   exported, fatal, browser, quit_calls>>

NextCollect ==
    \/ CollectPage
    \/ CollectDone

SpecCollect == InitCollect /\ [][NextCollect]_vars

(***************************************************************************)
(* job_extractor.py: the text helpers and _extract_skills.  A text is the  *)
(* sequence of its characters.                                             *)
(***************************************************************************)
\* the characters \s matches and str.strip removes
Whitespace == {" ", "\n"}

\* str.strip()
RECURSIVE Strip(_)
Strip(text) ==
    IF text = <<>> THEN <<>>
    ELSE IF text[1] \in Whitespace THEN Strip(Tail(text))
    ELSE IF text[Len(text)] \in Whitespace THEN Strip(SubSeq(text, 1, Len(text) - 1))
    ELSE text

\* re.sub(r"\s+", " ", text)
RECURSIVE CollapseSpaces(_)
CollapseSpaces(text) ==
    IF text = <<>> THEN <<>>
    ELSE IF text[1] \in Whitespace
         THEN IF Len(text) > 1 /\ text[2] \in Whitespace
              THEN CollapseSpaces(Tail(text))
              ELSE <<" ">> \o CollapseSpaces(Tail(text))
         ELSE <<text[1]>> \o CollapseSpaces(Tail(text))

_clean_text(text) == IF text = <<>> THEN <<>> ELSE CollapseSpaces(Strip(text))

\* sep.join(items)
RECURSIVE Join(_, _)
Join(sep, items) ==
    IF items = <<>> THEN <<>>
    ELSE IF Len(items) = 1 THEN items[1]
    ELSE items[1] \o sep \o Join(sep, Tail(items))

\* if text and len(text) < 50
MaxSkillLen == 50

\* the loop over the badge spans: every short non-empty text is appended
RECURSIVE BadgeSkills(_)
BadgeSkills(badges) ==
    IF badges = <<>> THEN <<>>
    ELSE LET text == _clean_text(badges[1])
         IN IF text # <<>> /\ Len(text) < MaxSkillLen
            THEN <<text>> \o BadgeSkills(Tail(badges))
            ELSE BadgeSkills(Tail(badges))

\* the loop over the tag links: a short non-empty text is appended unless it
\* is in skills already
RECURSIVE TagSkills(_, _)
TagSkills(tags, skills) ==
    IF tags = <<>> THEN skills
    ELSE LET text == _clean_text(tags[1])
         IN IF text # <<>> /\ Len(text) < MaxSkillLen /\ text \notin Range(skills)
            THEN TagSkills(Tail(tags), Append(skills, text))
            ELSE TagSkills(Tail(tags), skills)

\* _extract_skills on a page with the given badge spans and tag links
_extract_skills(badges, tags) == Join(<<",", " ">>, TagSkills(tags, BadgeSkills(badges)))

\* a text of n characters
Filler(n) == [i \in 1..n |-> "x"]

\* the texts a badge span or a tag link may carry
SkillTexts ==
    { <<>>, <<" ">>, <<"P", "y">>, <<"\n", "P", "y", " ">>, <<"S", " ", " ", "Q">>,
      Filler(MaxSkillLen - 1), Filler(MaxSkillLen) }

InitSkills ==
    /\ NoRun
    /\ \E badges \in SeqsUpTo(SkillTexts, MaxBadges), tags \in SeqsUpTo(SkillTexts, MaxTags) :
          fn_call = Pending("_extract_skills", <<badges, tags>>)

ExtractSkills ==
    /\ fn_call.fn = "_extract_skills"
    /\ ~fn_call.done
    /\ fn_call' = [fn_call EXCEPT !.ret = _extract_skills(fn_call.args[1], fn_call.args[2]),
                                  !.done = TRUE]
    /\ UNCHANGED run_vars

NextSkills == ExtractSkills

SpecSkills == InitSkills /\ [][NextSkills]_vars

(***************************************************************************)
(* job_extractor.py: _match_icon.  A path descriptor is the sequence of    *)
(* its characters.                                                         *)
(***************************************************************************)
\* SVG_ICON_PATHS of freework_scraper.config: the fixed table from attribute
\* tag to path descriptor, in the order of the dict
SVG_ICON_PATHS ==
    << [icon_name |-> "calendar", icon_path |-> <<"M", "1">>],
       [icon_name |-> "duration", icon_path |-> <<"M", "2">>],
       [icon_name |-> "experience", icon_path |-> <<"1", "M">>],
       [icon_name |-> "location", icon_path |-> <<"2", "M">>],
       [icon_name |-> "salary", icon_path |-> <<"1", "1">>],
       [icon_name |-> "remote", icon_path |-> <<"2", "2">>] >>

\* the for loop of _match_icon over the items from the n-th on
RECURSIVE MatchFrom(_, _)
MatchFrom(cleaned, n) ==
    IF n > Len(SVG_ICON_PATHS) THEN "None"
    ELSE IF cleaned = SVG_ICON_PATHS[n].icon_path THEN SVG_ICON_PATHS[n].icon_name
    ELSE MatchFrom(cleaned, n + 1)

\* _match_icon lowercasing the descriptor before the comparison
_match_icon_lower(svg_d) ==
    IF ~svg_d.has \/ svg_d.val = <<>> THEN "None"
    ELSE LET stripped == Strip(svg_d.val)
             cleaned == [n \in 1..Len(stripped) |-> IF stripped[n] = "m" THEN "M" ELSE stripped[n]]
         IN MatchFrom(cleaned, 1)

\* _match_icon(svg_d): svg_d is None when has is FALSE
_match_icon(svg_d) ==
    IF ~svg_d.has \/ svg_d.val = <<>> THEN "None"
    ELSE LET cleaned == Strip(svg_d.val) IN MatchFrom(cleaned, 1)

\* the characters of the path descriptors tried
PathChars == {" ", "M", "m", "1", "2"}

\* the values the d attribute of a path element may have, and None
Descriptors ==
    {[has |-> FALSE, val |-> <<>>]} \cup {[has |-> TRUE, val |-> v] : v \in SeqsUpTo(PathChars, MaxDescLen)}

InitMatch ==
    /\ NoRun
    /\ \E svg_d \in Descriptors : fn_call = Pending("_match_icon", svg_d)

MatchIcon ==
    /\ fn_call.fn = "_match_icon"
    /\ ~fn_call.done
    /\ fn_call' = [fn_call EXCEPT !.ret = _match_icon(fn_call.args), !.done = TRUE]
    /\ UNCHANGED run_vars

NextMatch == MatchIcon

SpecMatch == InitMatch /\ [][NextMatch]_vars

(***************************************************************************)
(* job_extractor.py: _extract_header, and extract_job_detail on a page     *)
(* that has at most a header.                                              *)
(***************************************************************************)
\* text.split("\n")
RECURSIVE Split(_, _)
Split(text, line) ==
    IF text = <<>> THEN <<line>>
    ELSE IF text[1] = "\n" THEN <<line>> \o Split(Tail(text), <<>>)
    ELSE Split(Tail(text), Append(line, text[1]))

\* fields = ["title", "company_name", "company_location", "job_category"]
HeaderFields == <<"title", "company_name", "company_location", "job_category">>

\* [line.strip() for line in text.split("\n")], blank lines included
StrippedLines(text) ==
    LET raw == Split(text, <<>>) IN [n \in 1..Len(raw) |-> Strip(raw[n])]

\* the positional assignment of _extract_header; header_div is None when
\* has is FALSE
AssignHeader(header_div, lines) ==
    [field \in Range(HeaderFields) |->
        LET i == CHOOSE n \in 1..Len(HeaderFields) : HeaderFields[n] = field
        IN IF header_div.has /\ i - 1 < Len(lines) THEN lines[i] ELSE <<>>]

\* _extract_header without the filter on blank lines
_extract_header_unfiltered(header_div) ==
    AssignHeader(header_div, StrippedLines(header_div.text))

\* _extract_header(soup), header_div being the container it finds
_extract_header(header_div) ==
    LET lines == SelectSeq(StrippedLines(header_div.text), LAMBDA line : line # <<>>)
    IN AssignHeader(header_div, lines)

\* the lines the text nodes of a header container may contribute
HeaderLines == { <<>>, <<" ">>, <<"a">>, <<"b">>, <<" ", "c", " ", " ", "d", " ">> }

\* the header containers of a detail page: none, or one whose
\* get_text(separator="\n") is the given lines joined
HeaderDivs ==
    {[has |-> FALSE, text |-> <<>>]} \cup
    {[has |-> TRUE, text |-> Join(<<"\n">>, lines)] : lines \in SeqsUpTo(HeaderLines, MaxHeaderLines)}

InitHeader ==
    /\ NoRun
    /\ \E header_div \in HeaderDivs : fn_call = Pending("extract_job_detail", header_div)

\* extract_job_detail from the header on, on a page whose other sections are
\* missing: the header fields are assigned and job.status = "ok"
ExtractHeader ==
    /\ fn_call.fn = "extract_job_detail"
    /\ ~fn_call.done
    /\ LET header == _extract_header(fn_call.args)
       IN fn_call' = [fn_call EXCEPT
             !.ret = [title |-> header["title"], company_name |-> header["company_name"],
                      company_location |-> header["company_location"],
                      job_category |-> header["job_category"], status |-> "ok"],
             !.done = TRUE]
    /\ UNCHANGED run_vars

NextHeader == ExtractHeader

SpecHeader == InitHeader /\ [][NextHeader]_vars

(***************************************************************************)
(* job_extractor.py: _extract_icon_attributes.  An icon-row container is   *)
(* the d attribute of its first path element and the text of its span,     *)
(* either of which may be missing.                                         *)
(***************************************************************************)
\* attributes = {"calendar": "", ..., "remote": ""}
IconTags == {"calendar", "duration", "experience", "location", "salary", "remote"}

\* the loop of _extract_icon_attributes over the containers
RECURSIVE IconLoop(_, _)
IconLoop(containers, attributes) ==
    IF containers = <<>> THEN attributes
    ELSE LET container == containers[1]
             icon_type == _match_icon(container.path)
         IN IF ~container.path.has \/ icon_type = "None" \/ ~container.span.has
            THEN IconLoop(Tail(containers), attributes)
            ELSE IconLoop(Tail(containers),
                    [attributes EXCEPT ![icon_type] = _clean_text(container.span.text)])

\* _extract_icon_attributes keeping the first occurrence of a tag
_extract_icon_attributes_first(containers) ==
    [tag \in IconTags |->
        LET at == {n \in 1..Len(containers) :
                      /\ containers[n].path.has
                      /\ _match_icon(containers[n].path) = tag
                      /\ containers[n].span.has}
        IN IF at = {} THEN <<>>
           ELSE _clean_text(containers[CHOOSE n \in at : \A m \in at : n <= m].span.text)]

\* _extract_icon_attributes on a page with the given containers
_extract_icon_attributes(containers) == IconLoop(containers, [tag \in IconTags |-> <<>>])

\* the path elements tried: none, the calendar icon, the salary icon, an
\* unknown icon
IconPaths ==
    { [has |-> FALSE, val |-> <<>>], [has |-> TRUE, val |-> <<"M", "1">>],
      [has |-> TRUE, val |-> <<"1", "1">>], [has |-> TRUE, val |-> <<"m", "1">>] }

\* the text spans tried: none, an empty one, two texts
IconSpans ==
    { [has |-> FALSE, text |-> <<>>], [has |-> TRUE, text |-> <<>>],
      [has |-> TRUE, text |-> <<"x">>], [has |-> TRUE, text |-> <<" ", "y", " ", "\n", "z">>] }

IconContainers == {[path |-> path, span |-> span] : path \in IconPaths, span \in IconSpans}

InitIcons ==
    /\ NoRun
    /\ \E containers \in SeqsUpTo(IconContainers, MaxContainers) :
          fn_call = Pending("_extract_icon_attributes", containers)

ExtractIcons ==
    /\ fn_call.fn = "_extract_icon_attributes"
    /\ ~fn_call.done
    /\ fn_call' = [fn_call EXCEPT !.ret = _extract_icon_attributes(fn_call.args), !.done = TRUE]
    /\ UNCHANGED run_vars

NextIcons == ExtractIcons

SpecIcons == InitIcons /\ [][NextIcons]_vars

(***************************************************************************)
(* search.py: _build_page_url.  A URL is its scheme, host and path (loc)   *)
(* and its query, the sequence of key=value parameters in written order.   *)
(***************************************************************************)
\* str(page)
str(n) == <<"0", "1", "2", "3", "4", "5", "6", "7", "8", "9">>[n + 1]

\* the values of key in a query, in order
ValuesOf(query, key) ==
    LET pairs == SelectSeq(query, LAMBDA kv : kv.k = key)
    IN [n \in 1..Len(pairs) |-> pairs[n].v]

\* the keys of a query, each once, in order of first occurrence
RECURSIVE KeysOf(_, _)
KeysOf(query, seen) ==
    IF query = <<>> THEN seen
    ELSE KeysOf(Tail(query),
                IF query[1].k \in Range(seen) THEN seen ELSE Append(seen, query[1].k))

\* urllib.parse.parse_qs(query): keep_blank_values is False, a parameter with
\* an empty value is left out; the dict maps a key to the list of its values
parse_qs(query) ==
    LET kept == SelectSeq(query, LAMBDA kv : kv.v # "")
    IN [keys |-> KeysOf(kept, <<>>),
        vals |-> [key \in Range(KeysOf(kept, <<>>)) |-> ValuesOf(kept, key)]]

\* params["page"] = [str(page)]
SetPage(params, page_no) ==
    [keys |-> IF "page" \in Range(params.keys) THEN params.keys
              ELSE Append(params.keys, "page"),
     vals |-> [key \in Range(params.keys) \cup {"page"} |->
                  IF key = "page" THEN <<str(page_no)>> ELSE params.vals[key]]]

\* urlencode(params, doseq=True): key=value for every value of every key
RECURSIVE urlencode(_, _)
urlencode(keys, vals) ==
    IF keys = <<>> THEN <<>>
    ELSE [n \in 1..Len(vals[keys[1]]) |-> [k |-> keys[1], v |-> vals[keys[1]][n]]]
         \o urlencode(Tail(keys), vals)

\* _build_page_url(base_url, page)
_build_page_url(base_url, page_no) ==
    LET params == SetPage(parse_qs(base_url.query), page_no)
    IN [loc |-> base_url.loc, query |-> urlencode(params.keys, params.vals)]

\* the search URLs tried
QueryKeys == {"query", "page", "contracts"}
QueryValues == {"", "1", "x"}
Locations == {"https://www.free-work.com/fr/tech-it/jobs", "https://www.free-work.com/en/tech-it/jobs"}
PageUrls ==
    [loc : Locations, query : SeqsUpTo([k : QueryKeys, v : QueryValues], MaxParams)]

InitPageUrl ==
    /\ NoRun
    /\ \E base_url \in PageUrls, page_no \in 1..MaxPageNo :
          fn_call = Pending("_build_page_url", [base_url |-> base_url, page |-> page_no])

BuildPageUrl ==
    /\ fn_call.fn = "_build_page_url"
    /\ ~fn_call.done
    /\ fn_call' = [fn_call EXCEPT !.ret = _build_page_url(fn_call.args.base_url, fn_call.args.page),
                                   !.done = TRUE]
    /\ UNCHANGED run_vars

NextPageUrl == BuildPageUrl

SpecPageUrl == InitPageUrl /\ [][NextPageUrl]_vars

(***************************************************************************)
(* job_extractor.py: the pool of extract_all_jobs on a batch of any size.  *)
(* What the extractions read and return is left out: a future is queued,   *)
(* running or done.                                                        *)
(***************************************************************************)
\* the last path segment of the links of a batch
LinkIds == <<"a", "b", "c", "d", "e", "f", "g", "h", "i", "j">>

\* a batch of n different links
Batch(n) == [i \in 1..n |-> <<BASE_URL, JOB_LINK_PREFIX, LinkIds[i]>>]

\* extract_all_jobs has submitted one extract_job_detail per link
InitPool ==
    /\ pc = "extract"
    /\ outcome = "running"
    /\ driver = "started"
    /\ page = SearchPage(1)
    /\ max_pages = 0
    /\ soup = <<>>
    /\ total_pages = 0
    /\ page_num = 0
    /\ all_links = <<>>
    /\ page_calls = <<>>
    /\ page_log = <<>>
    /\ \E n \in 1..MaxPoolLinks :
          /\ job_links = Batch(n)
          /\ futures = [i \in 1..n |-> Queued(Batch(n)[i])]
    /\ taken = {}
    /\ jobs = <<>>
    /\ job_calls = <<>>
    /\ exported = NotExported
    /\ fatal = ""
    /\ browser = "BrowserManager"
    /\ quit_calls = <<>>
    /\ fn_call = NoCall

\* a pool that starts a thread for every submitted call
PoolRunUnbounded(i) ==
    /\ pc = "extract"
    /\ i \in DOMAIN futures
    /\ futures[i].st = "queued"
    /\ page' = DetailPage(job_links[i])
    /\ futures' = [futures EXCEPT ![i].st = "running"]
    /\ UNCHANGED <<browser, quit_calls, fn_call, pc, outcome, driver, max_pages, soup,
                   total_pages, page_num, all_links, page_calls, page_log, job_links,
                   taken, jobs, job_calls, exported, fatal>>

\* ThreadPoolExecutor(max_workers=5): a queued extract_job_detail starts, and
\* navigates the browser, when fewer than 5 calls are in progress
PoolRun(i) ==
    /\ pc = "extract"
    /\ i \in DOMAIN futures
    /\ futures[i].st = "queued"
    /\ Cardinality(Running) < MaxWorkers
    /\ page' = DetailPage(job_links[i])
    /\ futures' = [futures EXCEPT ![i].st = "running"]
    /\ UNCHANGED <<browser, quit_calls, fn_call, pc, outcome, driver, max_pages, soup,
                   total_pages, page_num, all_links, page_calls, page_log, job_links,
                   taken, jobs, job_calls, exported, fatal>>

\* extract_job_detail returns its Job, as it does on every path of its
\* try/except once browser.get has returned or raised
PoolReturn(i) ==
    /\ pc = "extract"
    /\ i \in DOMAIN futures
    /\ futures[i].st = "running"
    /\ futures' = [futures EXCEPT ![i].st = "done"]
    /\ UNCHANGED <<browser, quit_calls, fn_call, pc, outcome, driver, page, max_pages, soup,
                   total_pages, page_num, all_links, page_calls, page_log, job_links,
                   taken, jobs, job_calls, exported, fatal>>

\* the with block of extract_all_jobs ends when every call has returned
PoolExit ==
    /\ pc = "extract"
    /\ \A i \in DOMAIN futures : futures[i].st = "done"
    /\ pc' = "export"
    /\ UNCHANGED <<browser, quit_calls, fn_call, outcome, driver, page, max_pages, soup,
                   total_pages, page_num, all_links, page_calls, page_log, job_links,
                   futures, taken, jobs, job_calls, exported, fatal>>

NextPool ==
    \/ \E i \in 1..MaxPoolLinks : PoolRun(i)
    \/ \E i \in 1..MaxPoolLinks : PoolReturn(i)
    \/ PoolExit

\* the pool threads run whenever they can, and every render call terminates
SpecPool ==
    /\ InitPool
    /\ [][NextPool]_vars
    /\ \A i \in 1..MaxPoolLinks : WF_vars(PoolRun(i)) /\ WF_vars(PoolReturn(i))
    /\ WF_vars(PoolExit)

(***************************************************************************)
(* Properties                                                              *)
(***************************************************************************)
\* extract_all_jobs has returned its list to main
Returned == pc = "export"

\* how many entries of the sequence s satisfy job_url = u
CountJobs(s, u) == Cardinality({n \in 1..Len(s) : s[n].job_url = u})

\* how many links of the batch are u
CountLinks(u) == Cardinality({i \in 1..Len(job_links) : job_links[i] = u})

JobUrls == {jobs[n].job_url : n \in 1..Len(jobs)}

WithStatus(st) == {n \in 1..Len(jobs) : jobs[n].status = st}

\* no invocation of on_job_done has raised so far
NoCallbackRaised == \A n \in 1..Len(job_calls) : ~job_calls[n].raised

\* the content fields of a Job, all but identity, meta and error fields
ContentFields ==
    {"title", "company_name", "company_location", "job_category", "publish_date",
     "start_date", "duration", "experience", "salary", "remote", "location",
     "description", "skills", "sector"}

\* C1: when extract_all_jobs returns, the list has one Job per input link: its
\* length is the number of links and every URL occurs in it as often as among
\* the links.
C1_OneJobPerLink ==
    Returned =>
        /\ Len(jobs) = Len(job_links)
        /\ \A u \in Range(job_links) \cup JobUrls : CountJobs(jobs, u) = CountLinks(u)

\* The statement of C1 does hold of the batches in which no on_job_done call
\* raised: the extra Jobs come from the except clause of the as_completed loop
\* catching the callback's exception.
OneJobPerLinkUnlessCallbackRaised ==
    (Returned /\ NoCallbackRaised) =>
        /\ Len(jobs) = Len(job_links)
        /\ \A u \in Range(job_links) \cup JobUrls : CountJobs(jobs, u) = CountLinks(u)

\* C2: in a batch where browser.get failed for exactly k links and the other
\* extractions parsed, the returned list holds exactly k error Jobs and N - k
\* ok Jobs, and the error Jobs are those of the failing links.
C2_ErrorsAreRenderFailures ==
    (Returned /\ \A i \in DOMAIN futures : futures[i].how # "parse") =>
        LET failing == {i \in DOMAIN futures : futures[i].how = "render"}
            k == Cardinality(failing)
        IN /\ Cardinality(WithStatus("error")) = k
           /\ Cardinality(WithStatus("ok")) = Len(job_links) - k
           /\ \A u \in Range(job_links) \cup JobUrls :
                 Cardinality({n \in WithStatus("error") : jobs[n].job_url = u})
                    = Cardinality({i \in failing : job_links[i] = u})

\* C3: the fields of the Job of URL u are read from the page rendered for u:
\* every content field a finished extraction has filled is the one the detail
\* page of its own job_url carries.
C3_ParsedOwnPage ==
    \A i \in DOMAIN futures :
        futures[i].st = "done" =>
            LET job == futures[i].job
            IN \A f \in ContentFields : job[f] \in {"", Doc(job.job_url)[f]}

\* C4: in one run no link is handed to the extraction twice, and the Jobs of
\* the result set have non-empty, pairwise different job_url values.
C4_UniqueJobUrls ==
    /\ pc \in {"extract", "export"} =>
          \A i, j \in 1..Len(job_links) : job_links[i] = job_links[j] => i = j
    /\ Returned =>
          /\ \A n \in 1..Len(jobs) : jobs[n].job_url # <<>>
          /\ \A n, m \in 1..Len(jobs) : jobs[n].job_url = jobs[m].job_url => n = m

\* a Job as the data model wants it: ok without message, error with a message
\* and a job_url
StatusAgreesWithMessage(job) ==
    /\ job.status \in {"ok", "error"}
    /\ job.status = "ok" => job.error_message = ""
    /\ job.status = "error" => (job.error_message # "" /\ job.job_url # <<>>)

\* C5: every Job extract_job_detail returns, and every Job of the list of
\* extract_all_jobs, has status ok and no error message, or status error with
\* an error message and its job_url.
C5_StatusAgreesWithMessage ==
    /\ \A i \in DOMAIN futures :
          futures[i].st = "done" => StatusAgreesWithMessage(futures[i].job)
    /\ \A n \in 1..Len(jobs) : StatusAgreesWithMessage(jobs[n])

\* C6: a Job that extract_job_detail returns with status error carries no
\* content field: whatever sub-steps had run, its content fields are all empty.
C6_ErrorJobHasNoContent ==
    \A i \in DOMAIN futures :
        (futures[i].st = "done" /\ futures[i].job.status = "error") =>
            \A f \in ContentFields : futures[i].job[f] = ""

\* the numeric page indices among the data-page attributes detect_total_pages saw
NumericIndices ==
    {ParseInt(soup[i].val) : i \in {n \in 1..Len(soup) : soup[n].has /\ IsDigit(soup[n].val)}}

\* C7: the total page count collect_all_job_links uses is the largest numeric
\* page index of the first page's pagination buttons, or 1 when there is none,
\* capped to max_pages when max_pages > 0 and not capped otherwise.
C7_TotalPages ==
    pc = "detected" =>
        LET found == NumericIndices
            detected == IF found = {} THEN 1
                        ELSE CHOOSE m \in found : \A n \in found : n <= m
        IN total_pages = IF max_pages > 0 /\ max_pages < detected THEN max_pages ELSE detected

\* the example of C7: indices {1, 2, 4} with max_pages = 2 give 2
C7_Witness ==
    /\ pc = "detected"
    /\ NumericIndices = {1, 2, 4}
    /\ max_pages = 2
    /\ total_pages = 2

\* the pages p >= 2 that failed: browser.get or the link extraction raised
FailedPages == {n \in 2..Len(page_log) : ~page_log[n].got \/ ~page_log[n].parsed}

RECURSIVE Concat(_)
Concat(lists) == IF lists = <<>> THEN <<>> ELSE lists[1] \o Concat(Tail(lists))

\* C8: a failure to render or parse a page p >= 2 is not fatal: the run is not
\* aborted over that page, the page adds no link, and when the function
\* returns every page up to the total was processed and the result is the
\* links of the pages that did not fail, in page order.
C8_PageFailureNotFatal ==
    /\ \A n \in FailedPages : page_log[n].links = <<>>
    /\ outcome = "fatal" => Len(page_log) \notin FailedPages
    /\ pc = "collected" =>
          /\ \A n \in 1..Len(page_log) : page_log[n].p = n
          /\ Len(page_log) = (IF total_pages >= 1 THEN total_pages ELSE 1)
          /\ job_links = Concat([n \in 1..Len(page_log) |-> page_log[n].links])

\* The statement of C8 does hold as long as on_page_done does not raise in the
\* except clause of the page loop.
PageFailureNotFatalUnlessCallbackRaised ==
    /\ \A n \in FailedPages : page_log[n].links = <<>>
    /\ (outcome = "fatal" /\ fatal # "on_page_done") => Len(page_log) \notin FailedPages
    /\ pc = "collected" =>
          /\ \A n \in 1..Len(page_log) : page_log[n].p = n
          /\ Len(page_log) = (IF total_pages >= 1 THEN total_pages ELSE 1)
          /\ job_links = Concat([n \in 1..Len(page_log) |-> page_log[n].links])

\* browser.get(search_url) raised
InitialLoadFailed == page_log # <<>> /\ ~page_log[1].got

\* C9: when the initial load of the search page fails, the run is over with a
\* fatal error: no link was returned, on_page_done was never invoked, nothing
\* was submitted for extraction and export_jobs was not called.
C9_InitialLoadFailureIsFatal ==
    InitialLoadFailed =>
        /\ pc \in {"finally", "done"}
        /\ outcome = "fatal"
        /\ fatal = "load_search"
        /\ page_calls = <<>>
        /\ all_links = <<>> /\ job_links = <<>>
        /\ futures = <<>> /\ jobs = <<>> /\ job_calls = <<>>
        /\ ~exported.called
        /\ page = Blank

\* a run that ended after the initial load failed
C9_Witness == InitialLoadFailed /\ pc = "done" /\ outcome = "fatal"

\* C10: the i-th invocation of on_job_done of a batch receives index i, with
\* total = N and the Job just completed.
C10_CallbackIndexIsCompletionRank ==
    \A n \in 1..Len(job_calls) :
        /\ job_calls[n].idx = n
        /\ job_calls[n].total = Len(job_links)
        /\ job_calls[n].job \in Range(jobs)

\* what C11 expects of on_page_done when collect_all_job_links returns: one
\* invocation per page 1..total_pages, in page order, with the number of links
\* the page added
ExpectedPageCalls ==
    [n \in 1..total_pages |-> <<n, total_pages, Len(page_log[n].links)>>]

\* C11: when collect_all_job_links returns, on_page_done has been invoked
\* exactly once for each page 1..total_pages, in ascending order, with (page
\* index, total_pages, links the page added), the count being 0 for the pages
\* that failed.
C11_OnePageCallPerPage ==
    pc = "collected" =>
        /\ Len(page_log) = total_pages
        /\ page_calls = ExpectedPageCalls
        /\ \A n \in FailedPages : page_calls[n][3] = 0

\* The statement of C11 does hold of the runs in which detect_total_pages
\* found a page count of at least 1 and on_page_done did not raise inside the
\* try block (which makes the except clause invoke it a second time).
OnePageCallPerPageUnlessCallbackRaised ==
    (pc = "collected" /\ total_pages >= 1 /\ Len(page_calls) = Len(page_log)) =>
        /\ Len(page_log) = total_pages
        /\ page_calls = ExpectedPageCalls
        /\ \A n \in FailedPages : page_calls[n][3] = 0

\* C12: a run of main that acquired a BrowserManager ends, whatever its
\* outcome (success, no links, interrupt, fatal error in any phase), with
\* BrowserManager.quit called and the manager's driver None, also when
\* driver.quit() itself raised.
C12_BrowserReleased ==
    /\ quit_calls # <<>> => driver = "none"
    /\ pc = "done" =>
          /\ outcome \in {"success", "no_links", "interrupted", "fatal"}
          /\ browser = "BrowserManager" => (Len(quit_calls) = 1 /\ driver = "none")

\* a run that failed in the export phase and whose driver.quit() raised
C12_Witness ==
    /\ pc = "done"
    /\ outcome = "fatal" /\ fatal = "export"
    /\ quit_calls = <<"raised">>
    /\ driver = "none"

\* the Jobs the extractions of the batch produced, whatever the callbacks did
Produced == {futures[i].job : i \in DOMAIN futures}

\* how many extractions of the batch produced the Job j
CountProduced(j) == Cardinality({i \in DOMAIN futures : futures[i].job = j})

\* how many entries of the list of extract_all_jobs are the Job j
CountReturned(j) == Cardinality({n \in 1..Len(jobs) : jobs[n] = j})

\* C13: the progress callbacks only observe: a raising on_page_done does not
\* keep collect_all_job_links from returning the links of the pages, and the
\* list extract_all_jobs returns is, as a multiset, the Jobs the extractions
\* produced, whether on_job_done returned or raised.
C13_CallbacksOnlyObserve ==
    /\ fatal # "on_page_done"
    /\ pc = "collected" => job_links = Concat([n \in 1..Len(page_log) |-> page_log[n].links])
    /\ Returned => \A j \in Produced \cup Range(jobs) : CountReturned(j) = CountProduced(j)

\* The list of extract_all_jobs is the multiset of the Jobs produced as long
\* as no on_job_done call raised.
ProducedIsReturnedUnlessCallbackRaised ==
    (Returned /\ NoCallbackRaised) =>
        \A j \in Produced \cup Range(jobs) : CountReturned(j) = CountProduced(j)

\* the hrefs of the anchors that are job links, resolved, in document order
ResolvedJobHrefs(anchors) ==
    LET job == SelectSeq(anchors, LAMBDA href : JOB_LINK_PREFIX \in Range(href))
    IN [n \in 1..Len(job) |->
          IF job[n][1] = BASE_URL THEN job[n] ELSE <<BASE_URL>> \o job[n]]

\* the position of the first occurrence of x in s
FirstAt(s, x) == CHOOSE i \in 1..Len(s) : s[i] = x /\ \A j \in 1..(i - 1) : s[j] # x

\* links holds each distinct element of hrefs exactly once, in the order of
\* their first occurrences
DistinctInFirstOccurrenceOrder(links, hrefs) ==
    /\ Range(links) = Range(hrefs)
    /\ \A i, j \in 1..Len(links) :
          i < j => (links[i] # links[j] /\ FirstAt(hrefs, links[i]) < FirstAt(hrefs, links[j]))

\* how many of the pages of the site list an anchor that resolves to u
PagesListing(site, u) ==
    Cardinality({n \in 1..Len(site) : u \in Range(ResolvedJobHrefs(site[n]))})

\* C14: extract_job_links_from_page returns each distinct resolved URL of the
\* job anchors of the page once, in document order of first occurrence, and
\* collect_all_job_links returns the per-page lists concatenated in page
\* order, so a URL occurs in the result once for every page that lists it.
C14_DedupIsPerPage ==
    fn_call.fn = "collect_all_job_links" =>
        /\ \A n \in 1..Len(fn_call.ret) :
              DistinctInFirstOccurrenceOrder(fn_call.ret[n], ResolvedJobHrefs(fn_call.args[n]))
        /\ all_links = Concat(fn_call.ret)
        /\ fn_call.done =>
              /\ job_links = Concat(fn_call.ret)
              /\ \A u \in Range(job_links) \cup UNION {Range(ResolvedJobHrefs(fn_call.args[n])) : n \in 1..2} :
                    Cardinality({i \in 1..Len(job_links) : job_links[i] = u})
                       = PagesListing(fn_call.args, u)

\* page 1 lists the job a twice (relative and absolute), page 2 lists b and
\* then a: the result is a, b, a
C14_Witness ==
    /\ fn_call.fn = "collect_all_job_links"
    /\ fn_call.done
    /\ fn_call.args[1] = << <<JOB_LINK_PREFIX, "a">>, <<BASE_URL, JOB_LINK_PREFIX, "a">> >>
    /\ fn_call.args[2] = << <<JOB_LINK_PREFIX, "b">>, <<JOB_LINK_PREFIX, "a">> >>
    /\ job_links = << <<BASE_URL, JOB_LINK_PREFIX, "a">>, <<BASE_URL, JOB_LINK_PREFIX, "b">>,
                      <<BASE_URL, JOB_LINK_PREFIX, "a">> >>

\* how many entries of the list handed to export_jobs are the Job j
CountExported(j) == Cardinality({n \in 1..Len(exported.jobs) : exported.jobs[n] = j})

\* C15: a run ends without export_jobs having been called, or export_jobs
\* was called with a complete result set: never fewer Jobs than collected
\* links, and for every collected link the finalized Job of its extraction,
\* with status ok or error.
C15_NoPartialExport ==
    /\ exported.called =>
          /\ job_links # <<>>
          /\ Len(exported.jobs) >= Len(job_links)
          /\ \A i \in 1..Len(job_links) :
                /\ i \in DOMAIN futures /\ futures[i].st = "done"
                /\ futures[i].job.job_url = job_links[i]
                /\ CountExported(futures[i].job) >= CountProduced(futures[i].job)
          /\ \A n \in 1..Len(exported.jobs) : exported.jobs[n].status \in {"ok", "error"}
    /\ outcome = "success" => exported.called
    /\ (pc = "done" /\ ~exported.called) => outcome \in {"fatal", "interrupted", "no_links"}

\* a successful run that exported the Jobs of two links, one ok and one error
C15_Witness ==
    /\ pc = "done"
    /\ outcome = "success"
    /\ Len(job_links) = 2
    /\ Len(exported.jobs) = 2
    /\ \E n, m \in 1..2 : exported.jobs[n].status = "ok" /\ exported.jobs[m].status = "error"

\* C16: every Job extract_all_jobs returns has its page_number set to the
\* search-result page its link was collected on, which is a page >= 1: no
\* returned Job is left with the default page number 0.
C16_PageNumberSet ==
    Returned => \A n \in 1..Len(jobs) : jobs[n].page_number >= 1

\* the normalized texts that qualify as a skill: not empty, shorter than 50
Eligible(texts) ==
    LET cleaned == [n \in 1..Len(texts) |-> _clean_text(texts[n])]
    IN SelectSeq(cleaned, LAMBDA text : text # <<>> /\ Len(text) < 50)

\* s without the repetitions of its elements
RECURSIVE Distinct(_, _)
Distinct(s, kept) ==
    IF s = <<>> THEN kept
    ELSE Distinct(Tail(s), IF s[1] \in Range(kept) THEN kept ELSE Append(kept, s[1]))

\* C17: the string _extract_skills returns holds no duplicate entry: it is the
\* normalized texts of the badge spans and then the tag links, without the
\* empty ones and those of 50 characters or more, each kept once at its first
\* occurrence, joined with ", ".
C17_SkillsAreDistinct ==
    (fn_call.fn = "_extract_skills" /\ fn_call.done) =>
        fn_call.ret = Join(<<",", " ">>, Distinct(Eligible(fn_call.args[1] \o fn_call.args[2]), <<>>))

\* The statement of C17 does hold of the pages whose badge spans carry
\* pairwise different skills: only a skill repeated among the badges is kept
\* twice.
SkillsAreDistinctUnlessBadgeRepeats ==
    (/\ fn_call.fn = "_extract_skills" /\ fn_call.done
     /\ LET b == Eligible(fn_call.args[1]) IN \A i, j \in 1..Len(b) : b[i] = b[j] => i = j) =>
        fn_call.ret = Join(<<",", " ">>, Distinct(Eligible(fn_call.args[1] \o fn_call.args[2]), <<>>))

\* the entries of the table whose path descriptor is d, character for character
Verbatim(d) == {n \in 1..Len(SVG_ICON_PATHS) : SVG_ICON_PATHS[n].icon_path = d}

NonEmptyLines(header_div) ==
    SelectSeq(StrippedLines(header_div.text), LAMBDA line : Len(line) > 0)

\* C19: with k non-empty lines in the header container, title, company name,
\* company location and job category are the 1st to min(k, 4)-th line in that
\* order and the other header fields are empty; without a container, or with
\* k = 0, the four fields are empty; the status of the Job is ok.
C19_HeaderIsPositional ==
    (fn_call.fn = "extract_job_detail" /\ fn_call.done) =>
        LET job == fn_call.ret
            lines == NonEmptyLines(fn_call.args)
            k == IF fn_call.args.has THEN Len(lines) ELSE 0
        IN /\ job.title = IF k >= 1 THEN lines[1] ELSE <<>>
           /\ job.company_name = IF k >= 2 THEN lines[2] ELSE <<>>
           /\ job.company_location = IF k >= 3 THEN lines[3] ELSE <<>>
           /\ job.job_category = IF k >= 4 THEN lines[4] ELSE <<>>
           /\ job.status = "ok"

\* a header of five non-empty lines: the fifth line is in no field
C19_Witness ==
    /\ fn_call.fn = "extract_job_detail" /\ fn_call.done
    /\ fn_call.args.has
    /\ NonEmptyLines(fn_call.args) = << <<"a">>, <<"b">>, <<"c", " ", " ", "d">>, <<"b">>, <<"a">> >>
    /\ fn_call.ret.title = <<"a">>
    /\ fn_call.ret.company_location = <<"c", " ", " ", "d">>
    /\ fn_call.ret.job_category = <<"b">>

\* main is inside collect_all_job_links, or has its result and has not yet
\* started the extraction
Collecting == pc \in {"load_search", "detect", "detected", "first_page", "pages", "collected"}

\* C20: collect_all_job_links renders one page at a time and each page at
\* most once: the search URL first (its links are read from that rendering),
\* then the pages 2..total_pages in ascending order, each exactly once by the
\* time the function returns; no page beyond the effective total, so none
\* beyond max_pages when max_pages > 0, is rendered, and no detail page is
\* rendered before the function has returned.
C20_PagesRenderedOnceInOrder ==
    /\ \A n \in 1..Len(page_log) : page_log[n].p = n
    /\ \A n \in 2..Len(page_log) : n <= total_pages
    /\ max_pages > 0 => Len(page_log) <= max_pages
    /\ pc \in {"first_page", "pages", "collected"} => (page_log # <<>> /\ page_log[1].got)
    /\ pc = "collected" => Len(page_log) = (IF total_pages >= 2 THEN total_pages ELSE 1)
    /\ Collecting =>
          /\ page.kind # "detail"
          /\ futures = <<>>
          /\ page.kind = "search" => page.p \in 1..Len(page_log)

\* a collection capped to two pages that has rendered page 1 and then page 2
C20_Witness ==
    /\ pc = "collected"
    /\ max_pages = 2
    /\ total_pages = 2
    /\ Len(page_log) = 2
    /\ page_log[2].got
    /\ page = SearchPage(2)

\* the step appends to the list of extract_all_jobs or invokes on_job_done
Reports == Len(jobs') > Len(jobs) \/ Len(job_calls') > Len(job_calls)

\* the step is one iteration of the as_completed loop for the future i, which
\* was done before the step: its Job is appended and reported once, and no
\* worker writes in the same step
ReportsDone(i) ==
    /\ futures[i].st = "done"
    /\ i \notin taken
    /\ taken' = taken \cup {i}
    /\ futures' = futures
    /\ Len(jobs') > Len(jobs)
    /\ jobs'[Len(jobs) + 1] = futures[i].job
    /\ job_calls' = Append(job_calls, job_calls'[Len(job_calls')])
    /\ job_calls'[Len(job_calls')].job = futures[i].job

\* C21: the result list and the progress reporting of extract_all_jobs have
\* one writer at a time: every step that appends a Job or invokes on_job_done
\* is one iteration of the as_completed loop, for one future whose worker had
\* finished before; the list only grows, and the Job of a future already
\* yielded is not written again by a worker.
C21_OneWriterAfterWorkerDone ==
    [][/\ Reports => \E i \in DOMAIN futures : ReportsDone(i)
       /\ pc' = "extract" =>
             /\ Len(jobs') >= Len(jobs)
             /\ SubSeq(jobs', 1, Len(jobs)) = jobs
             /\ \A i \in taken : i \in DOMAIN futures' /\ futures'[i] = futures[i]]_vars

\* the Job of one link was appended and reported while the extraction of the
\* other link is between its browser.get and its read of the page
C21_Witness ==
    /\ pc = "extract"
    /\ Len(jobs) >= 1 /\ Len(job_calls) >= 1
    /\ \E i \in taken, j \in DOMAIN futures : futures[j].st = "running" /\ futures[i].st = "done"

\* C22: at every moment of extract_all_jobs at most 5 extract_job_detail calls
\* are in progress, whatever the number of links, and every submitted link is
\* eventually extracted: the batch ends with every call returned.
C22_BoundedPool ==
    /\ [](Cardinality(Running) <= 5)
    /\ <>(pc = "export" /\ \A i \in DOMAIN futures : futures[i].st = "done")

\* five calls in progress while two links of the batch wait in the queue
C22_Witness ==
    /\ Len(job_links) = 7
    /\ Cardinality(Running) = 5
    /\ Cardinality({i \in DOMAIN futures : futures[i].st = "queued"}) = 2

\* the containers, by position, whose icon resolves to tag and that carry a
\* text span
Occurrences(containers, tag) ==
    {n \in 1..Len(containers) :
        /\ containers[n].path.has
        /\ _match_icon(containers[n].path) = tag
        /\ containers[n].span.has}

PageParameterRewritten ==
    LET url == fn_call.args.base_url
        built == fn_call.ret
    IN /\ ValuesOf(built.query, "page") = <<str(fn_call.args.page)>>
       /\ built.loc = url.loc
       /\ \A q \in 1..MaxPageNo : _build_page_url(built, q) = _build_page_url(url, q)

\* C24: _build_page_url(url, p) has exactly one page parameter, of value p,
\* keeps scheme, host and path, keeps every other query parameter of url with
\* all of its values, those of empty value included, and building page q from
\* the result gives the URL built for q from the original.
C24_OnlyPageRewritten ==
    (fn_call.fn = "_build_page_url" /\ fn_call.done) =>
        /\ PageParameterRewritten
        /\ \A key \in QueryKeys \ {"page"} :
              ValuesOf(fn_call.ret.query, key) = ValuesOf(fn_call.args.base_url.query, key)

\* what _build_page_url does keep: of every other parameter the values that
\* are not empty, in order
OnlyPageRewrittenAmongNonEmpty ==
    (fn_call.fn = "_build_page_url" /\ fn_call.done) =>
        /\ PageParameterRewritten
        /\ \A key \in QueryKeys \ {"page"} :
              ValuesOf(fn_call.ret.query, key)
                  = SelectSeq(ValuesOf(fn_call.args.base_url.query, key), LAMBDA v : v # "")

\* C25: after the first page is rendered the effective total_pages of
\* collect_all_job_links is at least 1, whatever max_pages, and every
\* invocation on_page_done(p, total_pages, n) has 1 <= p <= total_pages, also
\* when the only numeric data-page attributes found are 0.
C25_PageIndexWithinTotal ==
    /\ pc \in {"detected", "first_page", "pages", "collected"} => total_pages >= 1
    /\ \A n \in 1..Len(page_calls) :
          /\ page_calls[n][2] >= 1
          /\ 1 <= page_calls[n][1]
          /\ page_calls[n][1] <= page_calls[n][2]

\* The page index is within the total wherever the detected total is not 0.
PageIndexWithinTotalUnlessZeroDetected ==
    \A n \in 1..Len(page_calls) :
        page_calls[n][2] >= 1 => (1 <= page_calls[n][1] /\ page_calls[n][1] <= page_calls[n][2])

====
